---- MODULE Spec2Model ----
(***************************************************************************)
(* Model of ts-stl's thread-safe wrapper (src/wrapper.hpp): a wrapper<_T>  *)
(* owning a container, a std::shared_timed_mutex and a default lock        *)
(* timeout; shared_accessor / unique_accessor objects holding a            *)
(* std::shared_lock / std::unique_lock on that mutex; and the wrapper's    *)
(* copy/move constructors and assignment operators.                        *)
(*                                                                         *)
(* Threads are preemptible.  A blocking or timed lock acquisition is a     *)
(* call step (the thread starts to wait) followed by an acquire step or,   *)
(* for a timed wait whose timeout has elapsed, a timeout step.  Time is a  *)
(* discrete clock advancing the waiting time of every thread inside        *)
(* try_lock_for.  A thread holds at most one accessor at a time, and       *)
(* starts an assignment between two distinct wrappers or a construction    *)
(* only while it holds none.                                               *)
(***************************************************************************)
EXTENDS Integers, FiniteSets, Sequences, TLC

\* ---------------------------------------------------------------- bounds
NumThreads == 3          \* threads of the contention scenarios
NumCallers == 2          \* threads exercising the whole interface
NumWrappers == 2
MaxVal == 1
TicksPerTimeout == 1

\* ---------------------------------------------------- program constants
\* std::chrono::milliseconds default of every wrapper and accessor
DefaultTimeout == 10000

Threads == 1..NumThreads
Callers == 1..NumCallers
Wrappers == 1..NumWrappers
Values == 0..MaxVal
\* the clock's resolution, in milliseconds
TickMs == DefaultTimeout \div TicksPerTimeout
\* timeouts handed to an accessor's set_lock_timeout: disabled, zero, the default
Timeouts == {-1, 0, DefaultTimeout}
\* timeouts handed to a wrapper's set_lock_timeout
WrapperTimeouts == {-1, DefaultTimeout}
\* what the uninitialised __lock_timeout of a wrapper under construction may hold
Garbage == {-1, DefaultTimeout}

VARIABLES
    alive,       \* the wrappers that have been constructed
    container,   \* wrapper::__container, per wrapper
    wtimeout,    \* wrapper::__lock_timeout, per wrapper
    mu,          \* wrapper::__stmutex: [writer: BOOLEAN, readers: Nat]
    acc,         \* the accessor a thread holds: [kind, w, owns, timeout]
    pc,          \* where each thread is
    elapsed,     \* ms a thread has spent inside try_lock_for
    op,          \* the assignment or construction a thread is running
    local,       \* a caller's local copy of the value (counter scenario)
    last         \* the call or event of the last step, and the values it touched

vars == <<alive, container, wtimeout, mu, acc, pc, elapsed, op, local, last>>

NoAcc == [kind |-> "none", w |-> 0, owns |-> FALSE, timeout |-> 0]
NoOp == [kind |-> "none", lhs |-> 0, rhs |-> 0, first |-> 0, tmo |-> 0, checked |-> FALSE]
NoEvent == [t |-> 0, ev |-> "none", rd |-> {}, wr |-> {}]
Event(t, e) == [t |-> t, ev |-> e, rd |-> {}, wr |-> {}]
Access(t, e, r, w) == [t |-> t, ev |-> e, rd |-> r, wr |-> w]
\* local: nothing loaded yet / the increment has been stored
NotLoaded == -1
Stored == -2

\* ------------------------------------------ std::shared_timed_mutex
CanLock(w) == ~mu[w].writer /\ mu[w].readers = 0
CanLockShared(w) == ~mu[w].writer
MuLock(m, w) == [m EXCEPT ![w].writer = TRUE]
MuUnlock(m, w) == [m EXCEPT ![w].writer = FALSE]
MuLockShared(m, w) == [m EXCEPT ![w].readers = @ + 1]
MuUnlockShared(m, w) == [m EXCEPT ![w].readers = @ - 1]

ExWait == {"ex_get", "ex_lock", "ex_access"}
ShWait == {"sh_get", "sh_lock", "sh_access"}
AsgHoldsFirst == {"asg_try", "asg_backoff"}
AsgHoldsBoth == {"asg_locked", "asg_copied", "asg_assigned"}
CtorBody == {"ctor_locked", "ctor_copied"}

\* the timeout of the try_lock_for a thread is inside, if it is inside one
WaitTimeout(t) == IF pc[t] = "ctor_wait" THEN op[t].tmo ELSE acc[t].timeout
TimedWaiting(t) ==
    \/ pc[t] \in ExWait \cup ShWait /\ acc[t].timeout >= 0
    \/ pc[t] = "ctor_wait"

Init ==
    /\ alive \in {[w \in Wrappers |-> TRUE], [w \in Wrappers |-> w = 1]}
    /\ container \in [Wrappers -> Values]
    /\ wtimeout = [w \in Wrappers |-> DefaultTimeout]
    /\ mu = [w \in Wrappers |-> [writer |-> FALSE, readers |-> 0]]
    /\ acc = [t \in Threads |-> NoAcc]
    /\ pc = [t \in Threads |-> "idle"]
    /\ elapsed = [t \in Threads |-> 0]
    /\ op = [t \in Threads |-> NoOp]
    /\ local = [t \in Threads |-> NotLoaded]
    /\ last = NoEvent

\* ------------------------------------------------------ unique_accessor
unique_accessor_set_lock_timeout(t, ms) ==
    /\ pc[t] = "idle" /\ acc[t].kind = "unique"
    /\ acc' = [acc EXCEPT ![t].timeout = ms]
    /\ last' = NoEvent
    /\ UNCHANGED <<alive, container, wtimeout, mu, pc, elapsed, op, local>>

\* (mutant) no "if (__lock) return": the accessor waits for its own lock
unique_accessor_lock_always(t) ==
    /\ pc[t] = "idle" /\ acc[t].kind = "unique"
    /\ pc' = [pc EXCEPT ![t] = "ex_lock"]
    /\ elapsed' = [elapsed EXCEPT ![t] = 0]
    /\ last' = Event(t, "lock")
    /\ UNCHANGED <<alive, container, wtimeout, mu, acc, op, local>>

\* lock(): returns at once when the lock is owned, else starts to wait
unique_accessor_lock(t) ==
    /\ pc[t] = "idle" /\ acc[t].kind = "unique"
    /\ IF acc[t].owns
          THEN UNCHANGED <<pc, elapsed>>
          ELSE /\ pc' = [pc EXCEPT ![t] = "ex_lock"]
               /\ elapsed' = [elapsed EXCEPT ![t] = 0]
    /\ last' = Event(t, "lock")
    /\ UNCHANGED <<alive, container, wtimeout, mu, acc, op, local>>

\* (mutant) the accessor's lock is a std::shared_lock: exclusive access is
\* taken in shared mode
unique_accessor_lock_acquire_shared(t) ==
    /\ pc[t] \in {"ex_lock", "ex_get"}
    /\ CanLockShared(acc[t].w)
    /\ mu' = MuLockShared(mu, acc[t].w)
    /\ acc' = [acc EXCEPT ![t].owns = TRUE]
    /\ pc' = [pc EXCEPT ![t] = "idle"]
    /\ elapsed' = [elapsed EXCEPT ![t] = 0]
    /\ last' = NoEvent
    /\ UNCHANGED <<alive, container, wtimeout, op, local>>

\* (mutant) the wait ends as soon as no writer holds the mutex, readers or not
unique_accessor_lock_acquire_ignoring_readers(t) ==
    /\ pc[t] \in {"ex_lock", "ex_get"}
    /\ CanLockShared(acc[t].w)
    /\ mu' = MuLock(mu, acc[t].w)
    /\ acc' = [acc EXCEPT ![t].owns = TRUE]
    /\ pc' = [pc EXCEPT ![t] = "idle"]
    /\ elapsed' = [elapsed EXCEPT ![t] = 0]
    /\ last' = NoEvent
    /\ UNCHANGED <<alive, container, wtimeout, op, local>>

\* __lock.lock() or __lock.try_lock_for(__lock_timeout) obtains the mutex;
\* get_exclusive_access runs the same code on its local accessor (ex_get)
unique_accessor_lock_acquire(t) ==
    /\ pc[t] \in {"ex_lock", "ex_get"}
    /\ CanLock(acc[t].w)
    /\ mu' = MuLock(mu, acc[t].w)
    /\ acc' = [acc EXCEPT ![t].owns = TRUE]
    /\ pc' = [pc EXCEPT ![t] = "idle"]
    /\ elapsed' = [elapsed EXCEPT ![t] = 0]
    /\ last' = NoEvent
    /\ UNCHANGED <<alive, container, wtimeout, op, local>>

\* (mutant) try_lock() in place of try_lock_for(): the failure does not wait
\* for the timeout
unique_accessor_lock_timeout_early(t) ==
    /\ pc[t] \in {"ex_lock", "ex_get"}
    /\ acc[t].timeout >= 0
    /\ pc' = [pc EXCEPT ![t] = "idle"]
    /\ acc' = [acc EXCEPT ![t] = IF pc[t] = "ex_get" THEN NoAcc ELSE @]
    /\ elapsed' = [elapsed EXCEPT ![t] = 0]
    /\ last' = Event(t, "timeout")
    /\ UNCHANGED <<alive, container, wtimeout, mu, op, local>>

\* (mutant) no branch for a negative timeout: try_lock_for is called with it
\* and the failure is thrown
unique_accessor_lock_timeout_always(t) ==
    /\ pc[t] \in {"ex_lock", "ex_get"}
    /\ elapsed[t] >= acc[t].timeout
    /\ pc' = [pc EXCEPT ![t] = "idle"]
    /\ acc' = [acc EXCEPT ![t] = IF pc[t] = "ex_get" THEN NoAcc ELSE @]
    /\ elapsed' = [elapsed EXCEPT ![t] = 0]
    /\ last' = Event(t, "timeout")
    /\ UNCHANGED <<alive, container, wtimeout, mu, op, local>>

\* try_lock_for returned without the lock: throw lock_timeout_error; thrown
\* out of get_exclusive_access it destroys the local accessor
unique_accessor_lock_timeout(t) ==
    /\ pc[t] \in {"ex_lock", "ex_get"}
    /\ acc[t].timeout >= 0 /\ elapsed[t] >= acc[t].timeout
    /\ pc' = [pc EXCEPT ![t] = "idle"]
    /\ acc' = [acc EXCEPT ![t] = IF pc[t] = "ex_get" THEN NoAcc ELSE @]
    /\ elapsed' = [elapsed EXCEPT ![t] = 0]
    /\ last' = Event(t, "timeout")
    /\ UNCHANGED <<alive, container, wtimeout, mu, op, local>>

unique_accessor_unlock(t) ==
    /\ pc[t] = "idle" /\ acc[t].kind = "unique"
    /\ IF acc[t].owns
          THEN /\ mu' = MuUnlock(mu, acc[t].w)
               /\ acc' = [acc EXCEPT ![t].owns = FALSE]
          ELSE UNCHANGED <<mu, acc>>
    /\ last' = Event(t, "unlock")
    /\ UNCHANGED <<alive, container, wtimeout, pc, elapsed, op, local>>

\* What the caller does with the _CT* / _CT& it got back: "read" the
\* container, "write" v into it, "load" it into a local, or store the
\* local plus one ("inc").
UseMutable(t, use, v) ==
    LET w == acc[t].w IN
    /\ container' = CASE use = "write" -> [container EXCEPT ![w] = v]
                      [] use = "inc" -> [container EXCEPT ![w] = local[t] + 1]
                      [] OTHER -> container
    /\ local' = CASE use = "load" -> [local EXCEPT ![t] = container[w]]
                  [] use = "inc" -> [local EXCEPT ![t] = Stored]
                  [] OTHER -> local
    /\ last' = IF use \in {"write", "inc"}
                  THEN Access(t, "access", {}, {w})
                  ELSE Access(t, "access", {w}, {})

\* (mutant) no "if (!__lock)" block: the operator hands out the container
\* whether the lock is owned or not
UniqueAccess_without_lock(t, use, v) ==
    /\ pc[t] = "idle" /\ acc[t].kind = "unique"
    /\ UseMutable(t, use, v)
    /\ UNCHANGED <<alive, wtimeout, mu, acc, pc, elapsed, op>>

\* operator-> and operator*: the same code twice.  The call returns the
\* container at once when the lock is owned, else starts to wait.
UniqueAccess(t, use, v) ==
    /\ pc[t] = "idle" /\ acc[t].kind = "unique"
    /\ IF acc[t].owns
          THEN /\ UseMutable(t, use, v)
               /\ UNCHANGED <<pc, elapsed>>
          ELSE /\ pc' = [pc EXCEPT ![t] = "ex_access"]
               /\ elapsed' = [elapsed EXCEPT ![t] = 0]
               /\ last' = NoEvent
               /\ UNCHANGED <<container, local>>
    /\ UNCHANGED <<alive, wtimeout, mu, acc, op>>

unique_accessor_arrow(t, use, v) == UniqueAccess(t, use, v)
unique_accessor_star(t, use, v) == UniqueAccess(t, use, v)

\* the operator obtained the mutex and returns the container
unique_accessor_access_acquire(t, use, v) ==
    /\ pc[t] = "ex_access"
    /\ CanLock(acc[t].w)
    /\ mu' = MuLock(mu, acc[t].w)
    /\ acc' = [acc EXCEPT ![t].owns = TRUE]
    /\ pc' = [pc EXCEPT ![t] = "idle"]
    /\ elapsed' = [elapsed EXCEPT ![t] = 0]
    /\ UseMutable(t, use, v)
    /\ UNCHANGED <<alive, wtimeout, op>>

unique_accessor_access_timeout(t) ==
    /\ pc[t] = "ex_access"
    /\ acc[t].timeout >= 0 /\ elapsed[t] >= acc[t].timeout
    /\ pc' = [pc EXCEPT ![t] = "idle"]
    /\ elapsed' = [elapsed EXCEPT ![t] = 0]
    /\ last' = Event(t, "timeout")
    /\ UNCHANGED <<alive, container, wtimeout, mu, acc, op, local>>

\* ------------------------------------------------------ shared_accessor
shared_accessor_set_lock_timeout(t, ms) ==
    /\ pc[t] = "idle" /\ acc[t].kind = "shared"
    /\ acc' = [acc EXCEPT ![t].timeout = ms]
    /\ last' = NoEvent
    /\ UNCHANGED <<alive, container, wtimeout, mu, pc, elapsed, op, local>>

shared_accessor_lock(t) ==
    /\ pc[t] = "idle" /\ acc[t].kind = "shared"
    /\ IF acc[t].owns
          THEN UNCHANGED <<pc, elapsed>>
          ELSE /\ pc' = [pc EXCEPT ![t] = "sh_lock"]
               /\ elapsed' = [elapsed EXCEPT ![t] = 0]
    /\ last' = Event(t, "lock")
    /\ UNCHANGED <<alive, container, wtimeout, mu, acc, op, local>>

shared_accessor_lock_acquire(t) ==
    /\ pc[t] \in {"sh_lock", "sh_get"}
    /\ CanLockShared(acc[t].w)
    /\ mu' = MuLockShared(mu, acc[t].w)
    /\ acc' = [acc EXCEPT ![t].owns = TRUE]
    /\ pc' = [pc EXCEPT ![t] = "idle"]
    /\ elapsed' = [elapsed EXCEPT ![t] = 0]
    /\ last' = NoEvent
    /\ UNCHANGED <<alive, container, wtimeout, op, local>>

\* (mutant) the test after try_lock_for is inverted: the throw happens when
\* the lock was obtained
shared_accessor_lock_timeout_inverted(t) ==
    /\ pc[t] \in {"sh_lock", "sh_get"}
    /\ acc[t].timeout >= 0
    /\ CanLockShared(acc[t].w)
    /\ mu' = MuLockShared(mu, acc[t].w)
    /\ acc' = [acc EXCEPT ![t].owns = TRUE]
    /\ pc' = [pc EXCEPT ![t] = "idle"]
    /\ elapsed' = [elapsed EXCEPT ![t] = 0]
    /\ last' = Event(t, "timeout")
    /\ UNCHANGED <<alive, container, wtimeout, op, local>>

shared_accessor_lock_timeout(t) ==
    /\ pc[t] \in {"sh_lock", "sh_get"}
    /\ acc[t].timeout >= 0 /\ elapsed[t] >= acc[t].timeout
    /\ pc' = [pc EXCEPT ![t] = "idle"]
    /\ acc' = [acc EXCEPT ![t] = IF pc[t] = "sh_get" THEN NoAcc ELSE @]
    /\ elapsed' = [elapsed EXCEPT ![t] = 0]
    /\ last' = Event(t, "timeout")
    /\ UNCHANGED <<alive, container, wtimeout, mu, op, local>>

shared_accessor_unlock(t) ==
    /\ pc[t] = "idle" /\ acc[t].kind = "shared"
    /\ IF acc[t].owns
          THEN /\ mu' = MuUnlockShared(mu, acc[t].w)
               /\ acc' = [acc EXCEPT ![t].owns = FALSE]
          ELSE UNCHANGED <<mu, acc>>
    /\ last' = Event(t, "unlock")
    /\ UNCHANGED <<alive, container, wtimeout, pc, elapsed, op, local>>

\* operator-> and operator*: the const _CT* / const _CT& handed back can
\* only be read
SharedAccess(t) ==
    /\ pc[t] = "idle" /\ acc[t].kind = "shared"
    /\ IF acc[t].owns
          THEN /\ last' = Access(t, "access", {acc[t].w}, {})
               /\ UNCHANGED <<pc, elapsed>>
          ELSE /\ pc' = [pc EXCEPT ![t] = "sh_access"]
               /\ elapsed' = [elapsed EXCEPT ![t] = 0]
               /\ last' = NoEvent
    /\ UNCHANGED <<alive, container, wtimeout, mu, acc, op, local>>

shared_accessor_arrow(t) == SharedAccess(t)
shared_accessor_star(t) == SharedAccess(t)

shared_accessor_access_acquire(t) ==
    /\ pc[t] = "sh_access"
    /\ CanLockShared(acc[t].w)
    /\ mu' = MuLockShared(mu, acc[t].w)
    /\ acc' = [acc EXCEPT ![t].owns = TRUE]
    /\ pc' = [pc EXCEPT ![t] = "idle"]
    /\ elapsed' = [elapsed EXCEPT ![t] = 0]
    /\ last' = Access(t, "access", {acc[t].w}, {})
    /\ UNCHANGED <<alive, container, wtimeout, op, local>>

shared_accessor_access_timeout(t) ==
    /\ pc[t] = "sh_access"
    /\ acc[t].timeout >= 0 /\ elapsed[t] >= acc[t].timeout
    /\ pc' = [pc EXCEPT ![t] = "idle"]
    /\ elapsed' = [elapsed EXCEPT ![t] = 0]
    /\ last' = Event(t, "timeout")
    /\ UNCHANGED <<alive, container, wtimeout, mu, acc, op, local>>

\* ~unique_accessor / ~shared_accessor: the lock member releases what it owns
accessor_destroy(t) ==
    /\ pc[t] = "idle" /\ acc[t].kind # "none"
    /\ mu' = IF ~acc[t].owns THEN mu
             ELSE IF acc[t].kind = "unique" THEN MuUnlock(mu, acc[t].w)
             ELSE MuUnlockShared(mu, acc[t].w)
    /\ acc' = [acc EXCEPT ![t] = NoAcc]
    /\ last' = NoEvent
    /\ UNCHANGED <<alive, container, wtimeout, pc, elapsed, op, local>>

\* ------------------------------------------------------------- wrapper
wrapper_set_lock_timeout(t, w, ms) ==
    /\ pc[t] = "idle" /\ alive[w]
    /\ wtimeout' = [wtimeout EXCEPT ![w] = ms]
    /\ last' = NoEvent
    /\ UNCHANGED <<alive, container, mu, acc, pc, elapsed, op, local>>

\* (mutant) no accessor.set_lock_timeout(__lock_timeout): the accessor keeps
\* the 10000 ms it would be constructed with
get_exclusive_access_default_timeout(t, w, aquire) ==
    /\ pc[t] = "idle" /\ acc[t].kind = "none" /\ alive[w]
    /\ acc' = [acc EXCEPT ![t] =
                 [kind |-> "unique", w |-> w, owns |-> FALSE, timeout |-> DefaultTimeout]]
    /\ pc' = [pc EXCEPT ![t] = IF aquire THEN "ex_get" ELSE "idle"]
    /\ elapsed' = [elapsed EXCEPT ![t] = 0]
    /\ last' = NoEvent
    /\ UNCHANGED <<alive, container, wtimeout, mu, op, local>>

get_exclusive_access(t, w, aquire) ==
    /\ pc[t] = "idle" /\ acc[t].kind = "none" /\ alive[w]
    /\ acc' = [acc EXCEPT ![t] =
                 [kind |-> "unique", w |-> w, owns |-> FALSE, timeout |-> wtimeout[w]]]
    /\ pc' = [pc EXCEPT ![t] = IF aquire THEN "ex_get" ELSE "idle"]
    /\ elapsed' = [elapsed EXCEPT ![t] = 0]
    /\ last' = NoEvent
    /\ UNCHANGED <<alive, container, wtimeout, mu, op, local>>

\* (mutant) the _aquire flag is ignored: accessor.lock() is always called
get_shared_access_always_eager(t, w, aquire) ==
    /\ pc[t] = "idle" /\ acc[t].kind = "none" /\ alive[w]
    /\ acc' = [acc EXCEPT ![t] =
                 [kind |-> "shared", w |-> w, owns |-> FALSE, timeout |-> wtimeout[w]]]
    /\ pc' = [pc EXCEPT ![t] = "sh_get"]
    /\ elapsed' = [elapsed EXCEPT ![t] = 0]
    /\ last' = NoEvent
    /\ UNCHANGED <<alive, container, wtimeout, mu, op, local>>

get_shared_access(t, w, aquire) ==
    /\ pc[t] = "idle" /\ acc[t].kind = "none" /\ alive[w]
    /\ acc' = [acc EXCEPT ![t] =
                 [kind |-> "shared", w |-> w, owns |-> FALSE, timeout |-> wtimeout[w]]]
    /\ pc' = [pc EXCEPT ![t] = IF aquire THEN "sh_get" ELSE "idle"]
    /\ elapsed' = [elapsed EXCEPT ![t] = 0]
    /\ last' = NoEvent
    /\ UNCHANGED <<alive, container, wtimeout, mu, op, local>>

\* The temporary locks of a running assignment or construction, from where
\* the thread is: std::lock holds the first lock while it tries the second.
OtherOf(o, w) == IF w = o.lhs THEN o.rhs ELSE o.lhs
\* _ulock_t on the target; on the source _slock_t (copy) or _ulock_t (move)
ExclusiveOn(o, w) == w = o.lhs \/ o.kind \in {"move_assign", "move_ctor"}
TempLocks(t) ==
    CASE pc[t] \in AsgHoldsFirst -> {op[t].first}
      [] pc[t] \in AsgHoldsBoth -> {op[t].lhs, op[t].rhs}
      [] pc[t] \in CtorBody /\ op[t].checked -> {op[t].rhs}
      [] OTHER -> {}

\* (mutant) no "if (this == &_rhs) return *this": a self assignment enters
\* std::lock with the same mutex twice
AssignCall_without_self_check(t, kind, lhs, rhs) ==
    /\ pc[t] = "idle" /\ alive[lhs] /\ alive[rhs]
    /\ acc[t].kind = "none"
    /\ pc' = [pc EXCEPT ![t] = "asg_block"]
    /\ op' = [op EXCEPT ![t] = [NoOp EXCEPT !.kind = kind, !.lhs = lhs,
                                             !.rhs = rhs, !.first = lhs]]
    /\ last' = Event(t, IF lhs = rhs THEN "self_assign" ELSE "assign")
    /\ UNCHANGED <<alive, container, wtimeout, mu, acc, elapsed, local>>

\* operator=(const wrapper&) and operator=(wrapper&&), the call: return on
\* self assignment, else enter std::lock, which first blocks on its first
\* argument
AssignCall(t, kind, lhs, rhs) ==
    /\ pc[t] = "idle" /\ alive[lhs] /\ alive[rhs]
    /\ IF lhs = rhs
          THEN /\ last' = Event(t, "self_assign")
               /\ UNCHANGED <<pc, op>>
          ELSE /\ acc[t].kind = "none"
               /\ pc' = [pc EXCEPT ![t] = "asg_block"]
               /\ op' = [op EXCEPT ![t] = [NoOp EXCEPT !.kind = kind, !.lhs = lhs,
                                                        !.rhs = rhs, !.first = lhs]]
               /\ last' = Event(t, "assign")
    /\ UNCHANGED <<alive, container, wtimeout, mu, acc, elapsed, local>>

copy_assign(t, lhs, rhs) == AssignCall(t, "copy_assign", lhs, rhs)
move_assign(t, lhs, rhs) == AssignCall(t, "move_assign", lhs, rhs)

\* std::lock: lock() on the lock it starts with
std_lock_first(t) ==
    LET w == op[t].first IN
    /\ pc[t] = "asg_block"
    /\ IF ExclusiveOn(op[t], w)
          THEN CanLock(w) /\ mu' = MuLock(mu, w)
          ELSE CanLockShared(w) /\ mu' = MuLockShared(mu, w)
    /\ pc' = [pc EXCEPT ![t] = "asg_try"]
    /\ last' = NoEvent
    /\ UNCHANGED <<alive, container, wtimeout, acc, elapsed, op, local>>

\* (mutant) the result of try_lock() is ignored: both locks count as taken
std_lock_try_unchecked(t) ==
    LET w == OtherOf(op[t], op[t].first) IN
    /\ pc[t] = "asg_try"
    /\ mu' = IF ExclusiveOn(op[t], w) THEN MuLock(mu, w) ELSE MuLockShared(mu, w)
    /\ pc' = [pc EXCEPT ![t] = "asg_locked"]
    /\ last' = NoEvent
    /\ UNCHANGED <<alive, container, wtimeout, acc, elapsed, op, local>>

\* (mutant) the two locks are taken one after the other with lock(), as
\* lhs.lock(); rhs.lock() would
std_lock_try_blocking(t) ==
    LET w == OtherOf(op[t], op[t].first) IN
    /\ pc[t] = "asg_try"
    /\ IF ExclusiveOn(op[t], w)
          THEN CanLock(w) /\ mu' = MuLock(mu, w)
          ELSE CanLockShared(w) /\ mu' = MuLockShared(mu, w)
    /\ pc' = [pc EXCEPT ![t] = "asg_locked"]
    /\ last' = NoEvent
    /\ UNCHANGED <<alive, container, wtimeout, acc, elapsed, op, local>>

\* std::lock: try_lock() on the other lock; when it fails, back off
std_lock_try(t) ==
    LET w == OtherOf(op[t], op[t].first) IN
    /\ pc[t] = "asg_try"
    /\ IF ExclusiveOn(op[t], w)
          THEN IF CanLock(w)
                  THEN mu' = MuLock(mu, w) /\ pc' = [pc EXCEPT ![t] = "asg_locked"]
                  ELSE mu' = mu /\ pc' = [pc EXCEPT ![t] = "asg_backoff"]
          ELSE IF CanLockShared(w)
                  THEN mu' = MuLockShared(mu, w) /\ pc' = [pc EXCEPT ![t] = "asg_locked"]
                  ELSE mu' = mu /\ pc' = [pc EXCEPT ![t] = "asg_backoff"]
    /\ last' = NoEvent
    /\ UNCHANGED <<alive, container, wtimeout, acc, elapsed, op, local>>

\* (mutant) the back-off does not unlock the lock it holds
std_lock_backoff_without_unlock(t) ==
    /\ pc[t] = "asg_backoff"
    /\ op' = [op EXCEPT ![t].first = OtherOf(op[t], op[t].first)]
    /\ pc' = [pc EXCEPT ![t] = "asg_block"]
    /\ last' = NoEvent
    /\ UNCHANGED <<alive, container, wtimeout, mu, acc, elapsed, local>>

\* std::lock: unlock the lock it holds and start again with the one that failed
std_lock_backoff(t) ==
    LET w == op[t].first IN
    /\ pc[t] = "asg_backoff"
    /\ mu' = IF ExclusiveOn(op[t], w) THEN MuUnlock(mu, w) ELSE MuUnlockShared(mu, w)
    /\ op' = [op EXCEPT ![t].first = OtherOf(op[t], w)]
    /\ pc' = [pc EXCEPT ![t] = "asg_block"]
    /\ last' = NoEvent
    /\ UNCHANGED <<alive, container, wtimeout, acc, elapsed, local>>

\* __container = std::copy(_rhs.__container) / std::move(_rhs.__container);
\* a moved-from container is left in a valid but unspecified state
assign_container(t, moved) ==
    LET o == op[t] IN
    /\ pc[t] = "asg_locked"
    /\ IF o.kind = "move_assign"
          THEN /\ container' = [container EXCEPT ![o.lhs] = container[o.rhs], ![o.rhs] = moved]
               /\ last' = Access(t, "assign", {o.rhs}, {o.lhs, o.rhs})
          ELSE /\ container' = [container EXCEPT ![o.lhs] = container[o.rhs]]
               /\ last' = Access(t, "assign", {o.rhs}, {o.lhs})
    /\ pc' = [pc EXCEPT ![t] = "asg_copied"]
    /\ UNCHANGED <<alive, wtimeout, mu, acc, elapsed, op, local>>

\* (mutant) operator= without "__lock_timeout = _rhs.__lock_timeout"
assign_timeout_skipped(t) ==
    /\ pc[t] = "asg_copied"
    /\ pc' = [pc EXCEPT ![t] = "asg_assigned"]
    /\ last' = NoEvent
    /\ UNCHANGED <<alive, container, wtimeout, mu, acc, elapsed, op, local>>

\* __lock_timeout = _rhs.__lock_timeout
assign_timeout(t) ==
    /\ pc[t] = "asg_copied"
    /\ wtimeout' = [wtimeout EXCEPT ![op[t].lhs] = wtimeout[op[t].rhs]]
    /\ pc' = [pc EXCEPT ![t] = "asg_assigned"]
    /\ last' = NoEvent
    /\ UNCHANGED <<alive, container, mu, acc, elapsed, op, local>>

\* (mutant) the lock on the source is released by hand on a path that the
\* return does not take: it stays locked
assign_return_leaking(t) ==
    /\ pc[t] = "asg_assigned"
    /\ mu' = MuUnlock(mu, op[t].lhs)
    /\ pc' = [pc EXCEPT ![t] = "idle"]
    /\ op' = [op EXCEPT ![t] = NoOp]
    /\ last' = Event(t, "assigned")
    /\ UNCHANGED <<alive, container, wtimeout, acc, elapsed, local>>

\* return *this: the two locks go out of scope
assign_return(t) ==
    LET o == op[t]
        m1 == MuUnlock(mu, o.lhs) IN
    /\ pc[t] = "asg_assigned"
    /\ mu' = IF ExclusiveOn(o, o.rhs) THEN MuUnlock(m1, o.rhs) ELSE MuUnlockShared(m1, o.rhs)
    /\ pc' = [pc EXCEPT ![t] = "idle"]
    /\ op' = [op EXCEPT ![t] = NoOp]
    /\ last' = Event(t, "assigned")
    /\ UNCHANGED <<alive, container, wtimeout, acc, elapsed, local>>

\* wrapper(const wrapper&) and wrapper(wrapper&&), the call.  The lock on the
\* source is taken inside assert(): a build with NDEBUG (checked = FALSE)
\* takes none; any other build calls try_lock_for with this object's
\* __lock_timeout, which nothing has initialised yet (garbage).
ConstructCall(t, kind, new, other, checked, garbage) ==
    /\ pc[t] = "idle" /\ acc[t].kind = "none"
    /\ ~alive[new] /\ alive[other]
    /\ \A u \in Threads : op[u].lhs # new
    /\ op' = [op EXCEPT ![t] = [NoOp EXCEPT !.kind = kind, !.lhs = new, !.rhs = other,
                                             !.tmo = IF checked THEN garbage ELSE 0,
                                             !.checked = checked]]
    /\ pc' = [pc EXCEPT ![t] = IF checked THEN "ctor_wait" ELSE "ctor_locked"]
    /\ elapsed' = [elapsed EXCEPT ![t] = 0]
    /\ last' = NoEvent
    /\ UNCHANGED <<alive, container, wtimeout, mu, acc, local>>

copy_construct(t, new, other, checked, garbage) ==
    ConstructCall(t, "copy_ctor", new, other, checked, garbage)
move_construct(t, new, other, checked, garbage) ==
    ConstructCall(t, "move_ctor", new, other, checked, garbage)

\* try_lock_for obtained the source's mutex: the assertion holds
construct_acquire(t) ==
    LET w == op[t].rhs IN
    /\ pc[t] = "ctor_wait"
    /\ IF ExclusiveOn(op[t], w)
          THEN CanLock(w) /\ mu' = MuLock(mu, w)
          ELSE CanLockShared(w) /\ mu' = MuLockShared(mu, w)
    /\ pc' = [pc EXCEPT ![t] = "ctor_locked"]
    /\ elapsed' = [elapsed EXCEPT ![t] = 0]
    /\ last' = NoEvent
    /\ UNCHANGED <<alive, container, wtimeout, acc, op, local>>

\* try_lock_for returned false: the assertion fails and std::abort ends the
\* process, with every thread, accessor and lock of it
construct_abort(t) ==
    /\ pc[t] = "ctor_wait"
    /\ elapsed[t] >= op[t].tmo
    /\ pc' = [u \in Threads |-> "aborted"]
    /\ mu' = [w \in Wrappers |-> [writer |-> FALSE, readers |-> 0]]
    /\ acc' = [u \in Threads |-> NoAcc]
    /\ op' = [u \in Threads |-> NoOp]
    /\ elapsed' = [u \in Threads |-> 0]
    /\ last' = Event(t, "abort")
    /\ UNCHANGED <<alive, container, wtimeout, local>>

\* __container = std::copy(_other.__container) / std::move(_other.__container)
construct_container(t, moved) ==
    LET o == op[t] IN
    /\ pc[t] = "ctor_locked"
    /\ IF o.kind = "move_ctor"
          THEN /\ container' = [container EXCEPT ![o.lhs] = container[o.rhs], ![o.rhs] = moved]
               /\ last' = Access(t, "construct", {o.rhs}, {o.rhs})
          ELSE /\ container' = [container EXCEPT ![o.lhs] = container[o.rhs]]
               /\ last' = Access(t, "construct", {o.rhs}, {})
    /\ pc' = [pc EXCEPT ![t] = "ctor_copied"]
    /\ UNCHANGED <<alive, wtimeout, mu, acc, elapsed, op, local>>

\* __lock_timeout = _other.__lock_timeout; the constructor returns and the
\* lock, if one was taken, goes out of scope
construct_return(t) ==
    LET o == op[t] IN
    /\ pc[t] = "ctor_copied"
    /\ wtimeout' = [wtimeout EXCEPT ![o.lhs] = wtimeout[o.rhs]]
    /\ alive' = [alive EXCEPT ![o.lhs] = TRUE]
    /\ mu' = IF ~o.checked THEN mu
             ELSE IF ExclusiveOn(o, o.rhs) THEN MuUnlock(mu, o.rhs)
             ELSE MuUnlockShared(mu, o.rhs)
    /\ pc' = [pc EXCEPT ![t] = "idle"]
    /\ op' = [op EXCEPT ![t] = NoOp]
    /\ last' = Event(t, "constructed")
    /\ UNCHANGED <<container, acc, elapsed, local>>

\* -------------------------------------------------------- environment
\* Time passes for every thread inside try_lock_for; a wait whose timeout has
\* elapsed ends (by acquiring or by failing) before time moves on.
Tick ==
    /\ \E t \in Threads : TimedWaiting(t)
    /\ \A t \in Threads : TimedWaiting(t) => elapsed[t] < WaitTimeout(t)
    /\ elapsed' = [t \in Threads |->
                     IF TimedWaiting(t) THEN elapsed[t] + TickMs ELSE elapsed[t]]
    /\ last' = NoEvent
    /\ UNCHANGED <<alive, container, wtimeout, mu, acc, pc, op, local>>

Uses == {"read", "write"}

Next ==
    \/ \E t \in Callers, ms \in Timeouts : unique_accessor_set_lock_timeout(t, ms)
    \/ \E t \in Callers : unique_accessor_lock(t)
    \/ \E t \in Callers : unique_accessor_lock_acquire(t)
    \/ \E t \in Callers : unique_accessor_lock_timeout(t)
    \/ \E t \in Callers : unique_accessor_unlock(t)
    \/ \E t \in Callers, u \in Uses, v \in Values : unique_accessor_arrow(t, u, v)
    \/ \E t \in Callers, u \in Uses, v \in Values : unique_accessor_star(t, u, v)
    \/ \E t \in Callers, u \in Uses, v \in Values : unique_accessor_access_acquire(t, u, v)
    \/ \E t \in Callers : unique_accessor_access_timeout(t)
    \/ \E t \in Callers, ms \in Timeouts : shared_accessor_set_lock_timeout(t, ms)
    \/ \E t \in Callers : shared_accessor_lock(t)
    \/ \E t \in Callers : shared_accessor_lock_acquire(t)
    \/ \E t \in Callers : shared_accessor_lock_timeout(t)
    \/ \E t \in Callers : shared_accessor_unlock(t)
    \/ \E t \in Callers : shared_accessor_arrow(t)
    \/ \E t \in Callers : shared_accessor_star(t)
    \/ \E t \in Callers : shared_accessor_access_acquire(t)
    \/ \E t \in Callers : shared_accessor_access_timeout(t)
    \/ \E t \in Callers : accessor_destroy(t)
    \/ \E t \in Callers, w \in Wrappers, ms \in WrapperTimeouts : wrapper_set_lock_timeout(t, w, ms)
    \/ \E t \in Callers, w \in Wrappers, aq \in BOOLEAN : get_exclusive_access(t, w, aq)
    \/ \E t \in Callers, w \in Wrappers, aq \in BOOLEAN : get_shared_access(t, w, aq)
    \/ \E t \in Callers, l \in Wrappers, r \in Wrappers : copy_assign(t, l, r)
    \/ \E t \in Callers, l \in Wrappers, r \in Wrappers : move_assign(t, l, r)
    \/ \E t \in Callers : std_lock_first(t)
    \/ \E t \in Callers : std_lock_try(t)
    \/ \E t \in Callers : std_lock_backoff(t)
    \/ \E t \in Callers, v \in Values : assign_container(t, v)
    \/ \E t \in Callers : assign_timeout(t)
    \/ \E t \in Callers : assign_return(t)
    \/ \E t \in Callers, n \in Wrappers, o \in Wrappers, c \in BOOLEAN, g \in Garbage :
          copy_construct(t, n, o, c, g)
    \/ \E t \in Callers, n \in Wrappers, o \in Wrappers, c \in BOOLEAN, g \in Garbage :
          move_construct(t, n, o, c, g)
    \/ \E t \in Callers : construct_acquire(t)
    \/ \E t \in Callers : construct_abort(t)
    \/ \E t \in Callers, v \in Values : construct_container(t, v)
    \/ \E t \in Callers : construct_return(t)
    \/ Tick

Spec == Init /\ [][Next]_vars

\* ---------------------------------------------------------------------
\* Contention scenario: every thread creates, locks, unlocks and destroys
\* accessors of the first wrapper.
TheWrapper == CHOOSE w \in Wrappers : \A x \in Wrappers : w <= x

NextContend ==
    \/ \E t \in Threads, aq \in BOOLEAN : get_exclusive_access(t, TheWrapper, aq)
    \/ \E t \in Threads, aq \in BOOLEAN : get_shared_access(t, TheWrapper, aq)
    \/ \E t \in Threads : unique_accessor_lock(t)
    \/ \E t \in Threads : unique_accessor_lock_acquire(t)
    \/ \E t \in Threads : unique_accessor_lock_timeout(t)
    \/ \E t \in Threads : unique_accessor_unlock(t)
    \/ \E t \in Threads : shared_accessor_lock(t)
    \/ \E t \in Threads : shared_accessor_lock_acquire(t)
    \/ \E t \in Threads : shared_accessor_lock_timeout(t)
    \/ \E t \in Threads : shared_accessor_unlock(t)
    \/ \E t \in Threads : accessor_destroy(t)
    \/ \E t \in Threads, ms \in WrapperTimeouts : wrapper_set_lock_timeout(t, TheWrapper, ms)
    \/ \E t \in Threads : unique_accessor_star(t, "read", 0)
    \/ \E t \in Threads : unique_accessor_access_acquire(t, "read", 0)
    \/ \E t \in Threads : unique_accessor_access_timeout(t)
    \/ \E t \in Threads : shared_accessor_arrow(t)
    \/ \E t \in Threads : shared_accessor_access_acquire(t)
    \/ \E t \in Threads : shared_accessor_access_timeout(t)
    \/ Tick

InitContend ==
    /\ Init
    /\ \A w \in Wrappers : alive[w] /\ container[w] = 0

SpecContend == InitContend /\ [][NextContend]_vars

\* A thread waiting inside lock() or try_lock_for is given the mutex if the
\* mutex stays available to it (weak fairness of the acquiring steps).
\* Nothing obliges a holder to release.
FairContend ==
    /\ SpecContend
    /\ \A t \in Threads :
          /\ WF_vars(unique_accessor_lock_acquire(t))
          /\ WF_vars(unique_accessor_access_acquire(t, "read", 0))
          /\ WF_vars(shared_accessor_lock_acquire(t))
          /\ WF_vars(shared_accessor_access_acquire(t))

\* ---------------------------------------------------------------------
\* Counter scenario: the first wrapper holds 0; every thread once takes
\* exclusive access, reads the value, stores the value plus one and lets go
\* of the accessor.  A thread whose acquisition timed out may try again.
counter_get(t) ==
    /\ local[t] = NotLoaded
    /\ get_exclusive_access(t, TheWrapper, TRUE)

counter_load(t) ==
    /\ local[t] = NotLoaded
    /\ unique_accessor_star(t, "load", 0)

counter_store(t) ==
    /\ local[t] >= 0
    /\ unique_accessor_star(t, "inc", 0)

counter_release(t) ==
    /\ local[t] = Stored
    /\ accessor_destroy(t)

NextCounter ==
    \/ \E t \in Threads : counter_get(t)
    \/ \E t \in Threads : unique_accessor_lock_acquire(t)
    \/ \E t \in Threads : unique_accessor_lock_timeout(t)
    \/ \E t \in Threads : counter_load(t)
    \/ \E t \in Threads : counter_store(t)
    \/ \E t \in Threads : counter_release(t)
    \/ Tick

InitCounter ==
    /\ Init
    /\ \A w \in Wrappers : alive[w] /\ container[w] = 0

SpecCounter == InitCounter /\ [][NextCounter]_vars

\* ---------------------------------------------------------------------
\* Cross assignment: the callers assign the wrappers to each other, in both
\* directions, by copy and by move, while no accessor exists.
NextCross ==
    \/ \E t \in Callers, l \in Wrappers, r \in Wrappers : copy_assign(t, l, r)
    \/ \E t \in Callers, l \in Wrappers, r \in Wrappers : move_assign(t, l, r)
    \/ \E t \in Callers : std_lock_first(t)
    \/ \E t \in Callers : std_lock_try(t)
    \/ \E t \in Callers : std_lock_backoff(t)
    \/ \E t \in Callers, v \in Values : assign_container(t, v)
    \/ \E t \in Callers : assign_timeout(t)
    \/ \E t \in Callers : assign_return(t)

InitCross ==
    /\ Init
    /\ \A w \in Wrappers : alive[w]

\* A thread inside operator= keeps running (weak fairness of its steps), and
\* a try_lock() that could succeed again and again does not fail for ever
\* (strong fairness of the successful try_lock(): it rules out two threads
\* backing off in lockstep without end).  Nothing obliges a thread to start
\* an assignment.
FairCross ==
    /\ InitCross /\ [][NextCross]_vars
    /\ \A t \in Callers :
          /\ WF_vars(std_lock_try(t))
          /\ WF_vars(std_lock_backoff(t))
          /\ WF_vars(\E v \in Values : assign_container(t, v))
          /\ WF_vars(assign_timeout(t))
          /\ WF_vars(assign_return(t))
          /\ WF_vars(std_lock_first(t))
          /\ SF_vars(std_lock_try(t) /\ pc'[t] = "asg_locked")

\* ------------------------------------------------------------ holders
AccWait == ExWait \cup ShWait
UniqueOwners(w) == {t \in Threads : acc[t].kind = "unique" /\ acc[t].w = w /\ acc[t].owns}
SharedOwners(w) == {t \in Threads : acc[t].kind = "shared" /\ acc[t].w = w /\ acc[t].owns}
TempExclusive(w) == {t \in Threads : w \in TempLocks(t) /\ ExclusiveOn(op[t], w)}
TempShared(w) == {t \in Threads : w \in TempLocks(t) /\ ~ExclusiveOn(op[t], w)}

\* C1: of the unique_accessors of one wrapper, at most one owns the lock
C1_MutualExclusion ==
    \A w \in Wrappers : Cardinality(UniqueOwners(w)) <= 1

\* every thread has a unique_accessor of the same wrapper; one owns the
\* lock and all the others are waiting for it
C1_Witness ==
    \E w \in Wrappers :
        /\ \A t \in Threads : acc[t].kind = "unique" /\ acc[t].w = w
        /\ Cardinality(UniqueOwners(w)) = 1
        /\ \A t \in Threads \ UniqueOwners(w) : pc[t] \in ExWait

\* C2: the lock of a wrapper has no holder, or one exclusive holder and no
\* other, or shared holders only; accessors and the temporary locks of
\* constructions and assignments all count
C2_ReadersWriter ==
    \A w \in Wrappers :
        LET ex == Cardinality(UniqueOwners(w)) + Cardinality(TempExclusive(w))
            sh == Cardinality(SharedOwners(w)) + Cardinality(TempShared(w))
        IN  /\ ex <= 1
            /\ ex = 1 => sh = 0
            /\ mu[w].writer = (ex = 1)
            /\ mu[w].readers = sh

\* an assignment holds its target exclusively while an accessor of another
\* thread waits for that wrapper
C2_Witness ==
    \E t \in Threads, u \in Threads :
        /\ pc[t] \in AsgHoldsBoth
        /\ pc[u] \in AccWait /\ acc[u].w = op[t].lhs

\* C3: a unique_accessor never obtains the lock while a shared_accessor of
\* the same wrapper owns it
C3_SharedConcurrency ==
    [][\A t \in Threads :
          (acc'[t].kind = "unique" /\ acc'[t].owns /\ ~acc[t].owns)
              => SharedOwners(acc'[t].w) = {}]_vars

\* all threads but one own the lock through shared_accessors at the same
\* time while the remaining thread's exclusive request waits
C3_Witness ==
    \E w \in Wrappers, t \in Threads :
        /\ SharedOwners(w) = Threads \ {t}
        /\ pc[t] \in ExWait /\ acc[t].w = w

AsgPcs == {"asg_block"} \cup AsgHoldsFirst \cup AsgHoldsBoth

ExclusivelyHeldByOther(t) ==
    \E u \in Threads \ {t} :
        acc[u].kind = "unique" /\ acc[u].w = acc[t].w /\ acc[u].owns
\* the mutex could be given to the waiting accessor of t
AvailableFor(t) ==
    /\ acc[t].kind # "none"
    /\ IF acc[t].kind = "unique" THEN CanLock(acc[t].w) ELSE CanLockShared(acc[t].w)
Thrown(t) == last'.ev = "timeout" /\ last'.t = t

\* C5: an acquisition with a timeout T >= 0 that ends while another
\* thread's unique_accessor owns the lock ends with lock_timeout_error, and
\* lock_timeout_error is never thrown before T ms have passed in the attempt
C5_TimeoutCorrectness ==
    [][\A t \in Threads :
          /\ (pc[t] \in AccWait /\ acc[t].timeout >= 0 /\ pc'[t] = "idle"
                 /\ ExclusivelyHeldByOther(t))
               => (Thrown(t) /\ ~acc'[t].owns)
          /\ Thrown(t) => (pc[t] \in AccWait /\ acc[t].timeout >= 0
                              /\ elapsed[t] >= acc[t].timeout)]_vars

\* lock() or an access operator of an accessor with the default timeout has
\* just thrown while another thread's unique_accessor owns the lock
C5_Witness ==
    /\ last.ev = "timeout"
    /\ acc[last.t].kind # "none" /\ acc[last.t].timeout = DefaultTimeout
    /\ ExclusivelyHeldByOther(last.t)

\* C6: an acquisition with a negative timeout never throws
\* lock_timeout_error and never ends while another thread's unique_accessor
\* owns the lock; it ends by owning the lock, and it does not stay blocked
\* for ever once the mutex stays available to it
C6_DisabledTimeout ==
    /\ [][\A t \in Threads :
            (pc[t] \in AccWait /\ acc[t].timeout < 0)
               => /\ ~Thrown(t)
                  /\ pc'[t] # pc[t]
                       => (acc'[t].owns /\ pc'[t] = "idle" /\ ~ExclusivelyHeldByOther(t))]_vars
    /\ \A t \in Threads :
          (pc[t] \in AccWait /\ acc[t].timeout < 0 /\ AvailableFor(t))
              ~> (acc[t].owns \/ ~AvailableFor(t))

\* an accessor with a negative timeout is blocked by another thread's
\* unique_accessor
C6_Witness ==
    \E t \in Threads :
        pc[t] \in AccWait /\ acc[t].timeout < 0 /\ ExclusivelyHeldByOther(t)

\* C7: the step that throws lock_timeout_error is taken from inside the
\* acquisition, returns to the caller, leaves the accessor without the lock
\* and changes neither the mutex nor any other thread's accessor
C7_StateAfterTimeout ==
    [][\A t \in Threads :
          Thrown(t) =>
             /\ pc[t] \in AccWait /\ pc'[t] = "idle"
             /\ ~acc[t].owns /\ ~acc'[t].owns
             /\ mu' = mu
             /\ \A u \in Threads \ {t} : acc'[u] = acc[u] /\ pc'[u] = pc[u]
             /\ \A w \in Wrappers : UniqueOwners(w)' = UniqueOwners(w)
                                    /\ SharedOwners(w)' = SharedOwners(w)]_vars

\* a unique_accessor has just thrown while shared_accessors own the lock
C7_Witness ==
    /\ last.ev = "timeout"
    /\ acc[last.t].kind = "unique" /\ ~acc[last.t].owns
    /\ SharedOwners(acc[last.t].w) # {}

\* C8: lock() on an accessor that owns the lock, and unlock() on one that
\* does not, return at once and change nothing
C8_IdempotentLockUnlock ==
    [][\A t \in Threads :
          (\/ last'.ev = "lock" /\ last'.t = t /\ acc[t].owns
           \/ last'.ev = "unlock" /\ last'.t = t /\ ~acc[t].owns)
             => UNCHANGED <<alive, container, wtimeout, mu, acc, pc, elapsed, op, local>>]_vars

\* lock() has just returned on an accessor that owned the lock already
C8_Witness ==
    /\ last.ev = "lock"
    /\ acc[last.t].owns /\ pc[last.t] = "idle"

\* C9: when every thread has stored its increment, the counter equals the
\* number of threads
C9_Counter ==
    (\A t \in Threads : local[t] = Stored) => container[TheWrapper] = NumThreads

\* every thread has incremented and released
C9_Witness ==
    \A t \in Threads : local[t] = Stored /\ acc[t] = NoAcc

\* what an accessor or a running wrapper operation of thread t holds
HoldsExclusive(t, w) ==
    \/ acc[t].kind = "unique" /\ acc[t].w = w /\ acc[t].owns
    \/ w \in TempLocks(t) /\ ExclusiveOn(op[t], w)
HoldsShared(t, w) ==
    \/ acc[t].kind = "shared" /\ acc[t].w = w /\ acc[t].owns
    \/ w \in TempLocks(t) /\ ~ExclusiveOn(op[t], w)

\* C10: the operation that has just read a wrapper's container holds that
\* wrapper's lock, shared or exclusive, and the one that has just written it
\* holds the lock exclusive
C10_GuardedAccess ==
    /\ \A w \in last.rd : HoldsShared(last.t, w) \/ HoldsExclusive(last.t, w)
    /\ \A w \in last.wr : HoldsExclusive(last.t, w)

\* accessors of other threads that own w's lock in a mode that conflicts
\* with the lock the operation o of thread t needs on w
ConflictingOwners(t, o, w) ==
    (UniqueOwners(w) \cup (IF ExclusiveOn(o, w) THEN SharedOwners(w) ELSE {})) \ {t}

\* C11: a copy or move construction copies the source's container only
\* while no accessor owns the source's lock in a conflicting mode, and it
\* does not fail before the default timeout has passed in the attempt
\* (stated for a source whose default timeout was left at 10000 ms)
C11_ConstructionUnderContention ==
    [][\A t \in Threads :
          /\ (last'.ev = "construct" /\ last'.t = t)
                => ConflictingOwners(t, op[t], op[t].rhs) = {}
          /\ (last'.ev = "abort" /\ last'.t = t /\ pc[t] = "ctor_wait"
                 /\ wtimeout[op[t].rhs] = DefaultTimeout)
                => elapsed[t] >= DefaultTimeout]_vars

\* ---------------------------------------------------------------------
\* Blocking scenario: the callers create accessors, eager or lazy, on any
\* wrapper, lock and destroy them, and assign the wrappers to each other.
NextBlocking ==
    \/ \E t \in Callers, w \in Wrappers, ms \in WrapperTimeouts : wrapper_set_lock_timeout(t, w, ms)
    \/ \E t \in Callers, w \in Wrappers, aq \in BOOLEAN : get_exclusive_access(t, w, aq)
    \/ \E t \in Callers, w \in Wrappers, aq \in BOOLEAN : get_shared_access(t, w, aq)
    \/ \E t \in Callers : unique_accessor_lock(t)
    \/ \E t \in Callers : unique_accessor_lock_acquire(t)
    \/ \E t \in Callers : unique_accessor_lock_timeout(t)
    \/ \E t \in Callers : shared_accessor_lock(t)
    \/ \E t \in Callers : shared_accessor_lock_acquire(t)
    \/ \E t \in Callers : shared_accessor_lock_timeout(t)
    \/ \E t \in Callers : accessor_destroy(t)
    \/ \E t \in Callers, l \in Wrappers, r \in Wrappers : copy_assign(t, l, r)
    \/ \E t \in Callers, l \in Wrappers, r \in Wrappers : move_assign(t, l, r)
    \/ \E t \in Callers : std_lock_first(t)
    \/ \E t \in Callers : std_lock_try(t)
    \/ \E t \in Callers : std_lock_backoff(t)
    \/ \E t \in Callers : assign_container(t, 0)
    \/ \E t \in Callers : assign_timeout(t)
    \/ \E t \in Callers : assign_return(t)
    \/ Tick

InitBlocking ==
    /\ Init
    /\ \A w \in Wrappers : alive[w] /\ container[w] = 0

\* Time passes, a thread inside an acquisition or an assignment keeps
\* running, and a lock() or try_lock() of std::lock that could succeed again
\* and again does not wait or fail for ever.  Nothing obliges a caller to start an operation or to let
\* go of an accessor.
FairBlocking ==
    /\ InitBlocking /\ [][NextBlocking]_vars
    /\ WF_vars(Tick)
    /\ \A t \in Callers :
          /\ WF_vars(unique_accessor_lock_acquire(t))
          /\ WF_vars(unique_accessor_lock_timeout(t))
          /\ WF_vars(shared_accessor_lock_acquire(t))
          /\ WF_vars(shared_accessor_lock_timeout(t))
          /\ SF_vars(std_lock_first(t))
          /\ WF_vars(std_lock_try(t))
          /\ WF_vars(std_lock_backoff(t))
          /\ WF_vars(assign_container(t, 0))
          /\ WF_vars(assign_timeout(t))
          /\ WF_vars(assign_return(t))
          /\ SF_vars(std_lock_try(t) /\ pc'[t] = "asg_locked")

\* thread t is inside a blocking acquisition: an accessor's, or std::lock
StdLockPcs == {"asg_block", "asg_try", "asg_backoff"}
Acquiring(t) == pc[t] \in AccWait \cup StdLockPcs
\* the timeout configured for the acquisition t is inside is not negative
TimeoutConfigured(t) ==
    IF pc[t] \in AccWait THEN acc[t].timeout >= 0
    ELSE wtimeout[op[t].lhs] >= 0 /\ wtimeout[op[t].rhs] >= 0

\* C12: a blocking acquisition whose configured timeout is not negative
\* ends, by success or by failure
C12_BoundedBlocking ==
    \A t \in Callers : (Acquiring(t) /\ TimeoutConfigured(t)) ~> ~Acquiring(t)

\* C13: a self assignment, by copy or by move, returns at once and changes
\* neither a container, a default timeout, a mutex nor an accessor, whoever
\* holds the wrapper's lock
C13_SelfAssignment ==
    [][\A t \in Threads :
          (\/ last'.ev = "self_assign" /\ last'.t = t
           \/ \E w \in Wrappers : copy_assign(t, w, w) \/ move_assign(t, w, w))
             => /\ last'.ev = "self_assign" /\ last'.t = t
                /\ UNCHANGED <<alive, container, wtimeout, mu, acc, pc, elapsed, op, local>>]_vars

\* a self assignment has just returned while every wrapper's lock is held,
\* one of them by the assigning thread's own accessor
C13_Witness ==
    /\ last.ev = "self_assign" /\ pc[last.t] = "idle"
    /\ acc[last.t].owns
    /\ \A w \in Wrappers : alive[w] /\ (mu[w].writer \/ mu[w].readers > 0)

\* C14: when a copy construction returns, the new wrapper's container and
\* default timeout are those of the source at that instant, at which no
\* accessor owns the source's lock exclusively, and the construction has
\* not changed the source; a move construction hands the new wrapper the
\* container the source had just before the move and, when it returns, the
\* source's default timeout
C14_ConstructionSemantics ==
    [][\A t \in Threads :
          LET o == op[t] IN
          /\ (last'.ev = "constructed" /\ last'.t = t /\ o.kind = "copy_ctor")
                => /\ container'[o.lhs] = container[o.rhs]
                   /\ wtimeout'[o.lhs] = wtimeout[o.rhs]
                   /\ UniqueOwners(o.rhs) = {}
                   /\ container'[o.rhs] = container[o.rhs]
                   /\ wtimeout'[o.rhs] = wtimeout[o.rhs]
          /\ (last'.ev = "construct" /\ last'.t = t /\ o.kind = "move_ctor")
                => container'[o.lhs] = container[o.rhs]
          /\ (last'.ev = "constructed" /\ last'.t = t /\ o.kind = "move_ctor")
                => wtimeout'[o.lhs] = wtimeout[o.rhs]
          /\ (pc[t] = "ctor_copied" /\ pc'[t] # "aborted")
                => container'[o.lhs] = container[o.lhs]]_vars

\* C15: a new accessor takes the wrapper's default timeout of that moment,
\* which is also the timeout of the eager acquisition; a change of a
\* wrapper's default timeout changes no accessor, and a change of an
\* accessor's timeout changes no wrapper's default and no other accessor
C15_TimeoutPropagation ==
    [][\A t \in Threads :
          /\ (acc[t].kind = "none" /\ acc'[t].kind # "none")
                => acc'[t].timeout = wtimeout[acc'[t].w]
          /\ (Thrown(t) /\ pc[t] \in {"ex_get", "sh_get"})
                => elapsed[t] >= acc[t].timeout
          /\ (wtimeout' # wtimeout) => acc' = acc
          /\ (acc[t].kind # "none" /\ acc'[t].kind # "none"
                 /\ acc'[t].timeout # acc[t].timeout)
                => /\ wtimeout' = wtimeout
                   /\ \A u \in Threads \ {t} : acc'[u] = acc[u]]_vars

\* two accessors of one wrapper whose timeouts differ from each other and
\* from the wrapper's default: one created before the default was changed,
\* one whose own timeout was set
C15_Witness ==
    \E t \in Threads, u \in Threads :
        /\ acc[t].kind # "none" /\ acc[u].kind # "none" /\ acc[t].w = acc[u].w
        /\ wtimeout[acc[t].w] = -1
        /\ acc[t].timeout = DefaultTimeout /\ acc[u].timeout = 0

\* C16: a wrapper's mutex is held only while an accessor owns it or a
\* running construction or assignment has locked it: after a destruction,
\* an unlock(), a return or a failure nothing of that accessor or operation
\* is left on any mutex, and with no accessor and no operation every mutex
\* is free
C16_ReleaseOnEveryExit ==
    \A w \in Wrappers :
        (/\ UniqueOwners(w) = {} /\ SharedOwners(w) = {}
         /\ \A t \in Threads : w \notin TempLocks(t))
           => (~mu[w].writer /\ mu[w].readers = 0)

\* an assignment has just returned, no accessor exists, no operation runs
\* and every mutex is free
C16_Witness ==
    /\ last.ev = "assigned"
    /\ \A t \in Threads : acc[t] = NoAcc /\ pc[t] = "idle"
    /\ \A w \in Wrappers : ~mu[w].writer /\ mu[w].readers = 0

\* C17: when operator-> or operator* hands out the container, the accessor
\* owns the mutex in its mode; an operator that had to acquire ends either
\* so or with lock_timeout_error, the accessor not owning and no container
\* handed out
C17_ImplicitAcquisition ==
    [][\A t \in Threads :
          /\ (last'.ev = "access" /\ last'.t = t)
                => /\ acc'[t].owns /\ pc'[t] = "idle"
                   /\ last'.rd \cup last'.wr = {acc'[t].w}
                   /\ IF acc'[t].kind = "unique"
                         THEN mu'[acc'[t].w].writer
                         ELSE mu'[acc'[t].w].readers > 0 /\ last'.wr = {}
          /\ (pc[t] \in {"ex_access", "sh_access"} /\ pc'[t] \notin {pc[t], "aborted"})
                => \/ last'.ev = "access" /\ last'.t = t /\ ~acc[t].owns
                   \/ Thrown(t) /\ ~acc'[t].owns /\ pc'[t] = "idle"
                        /\ acc[t].timeout >= 0]_vars

\* a shared_accessor's operator has just handed out the container of a
\* wrapper for which a unique_accessor's operator is waiting
C17_Witness ==
    /\ last.ev = "access"
    /\ acc[last.t].kind = "shared" /\ acc[last.t].owns
    /\ \E u \in Threads : pc[u] = "ex_access" /\ acc[u].w = acc[last.t].w

\* C18: a factory called with the flag false returns at once with an
\* accessor that owns nothing, and changes no mutex; called with the flag
\* true it returns only with an accessor that owns the mutex, or it throws
\* lock_timeout_error and no accessor is left; an accessor comes to own the
\* mutex only inside lock(), an access operator or the eager factory
C18_EagerLazy ==
    [][\A t \in Threads :
          /\ \A w \in Wrappers :
                /\ (get_exclusive_access(t, w, FALSE) \/ get_shared_access(t, w, FALSE))
                      => /\ pc'[t] = "idle" /\ mu' = mu
                         /\ acc'[t].w = w /\ ~acc'[t].owns /\ ~Thrown(t)
                /\ (get_exclusive_access(t, w, TRUE) \/ get_shared_access(t, w, TRUE))
                      => pc'[t] \in {"ex_get", "sh_get"} /\ mu' = mu
          /\ (pc[t] \in {"ex_get", "sh_get"} /\ pc'[t] \notin {pc[t], "aborted"})
                => /\ pc'[t] = "idle"
                   /\ \/ acc'[t].owns /\ acc'[t].kind = acc[t].kind /\ ~Thrown(t)
                      \/ Thrown(t) /\ acc'[t] = NoAcc
          /\ (~acc[t].owns /\ acc'[t].owns) => pc[t] \in AccWait]_vars

\* an accessor that was handed out without the lock exists while another
\* thread's unique_accessor owns the same wrapper's mutex
C18_Witness ==
    \E t \in Threads, u \in Threads :
        /\ t # u
        /\ acc[t].kind # "none" /\ ~acc[t].owns /\ pc[t] = "idle"
        /\ acc[u].kind = "unique" /\ acc[u].owns /\ acc[u].w = acc[t].w

\* ---------------------------------------------------------------------
\* Assignment scenario: every wrapper exists from the start; the callers
\* use accessors of every kind, change timeouts and assign the wrappers to
\* each other.  No wrapper is constructed from another.
NextAssign ==
    \/ \E t \in Callers, ms \in Timeouts : unique_accessor_set_lock_timeout(t, ms)
    \/ \E t \in Callers : unique_accessor_lock(t)
    \/ \E t \in Callers : unique_accessor_lock_acquire(t)
    \/ \E t \in Callers : unique_accessor_lock_timeout(t)
    \/ \E t \in Callers : unique_accessor_unlock(t)
    \/ \E t \in Callers, u \in Uses, v \in Values : unique_accessor_arrow(t, u, v)
    \/ \E t \in Callers, u \in Uses, v \in Values : unique_accessor_star(t, u, v)
    \/ \E t \in Callers, u \in Uses, v \in Values : unique_accessor_access_acquire(t, u, v)
    \/ \E t \in Callers : unique_accessor_access_timeout(t)
    \/ \E t \in Callers, ms \in Timeouts : shared_accessor_set_lock_timeout(t, ms)
    \/ \E t \in Callers : shared_accessor_lock(t)
    \/ \E t \in Callers : shared_accessor_lock_acquire(t)
    \/ \E t \in Callers : shared_accessor_lock_timeout(t)
    \/ \E t \in Callers : shared_accessor_unlock(t)
    \/ \E t \in Callers : shared_accessor_arrow(t)
    \/ \E t \in Callers : shared_accessor_star(t)
    \/ \E t \in Callers : shared_accessor_access_acquire(t)
    \/ \E t \in Callers : shared_accessor_access_timeout(t)
    \/ \E t \in Callers : accessor_destroy(t)
    \/ \E t \in Callers, w \in Wrappers, ms \in WrapperTimeouts : wrapper_set_lock_timeout(t, w, ms)
    \/ \E t \in Callers, w \in Wrappers, aq \in BOOLEAN : get_exclusive_access(t, w, aq)
    \/ \E t \in Callers, w \in Wrappers, aq \in BOOLEAN : get_shared_access(t, w, aq)
    \/ \E t \in Callers, l \in Wrappers, r \in Wrappers : copy_assign(t, l, r)
    \/ \E t \in Callers, l \in Wrappers, r \in Wrappers : move_assign(t, l, r)
    \/ \E t \in Callers : std_lock_first(t)
    \/ \E t \in Callers : std_lock_try(t)
    \/ \E t \in Callers : std_lock_backoff(t)
    \/ \E t \in Callers, v \in Values : assign_container(t, v)
    \/ \E t \in Callers : assign_timeout(t)
    \/ \E t \in Callers : assign_return(t)
    \/ Tick

SpecAssign == InitCross /\ [][NextAssign]_vars

\* what operator= of thread t holds: the target exclusive, the source
\* shared (copy) or exclusive (move)
AssignLocksHeld(t) ==
    LET o == op[t] IN
    /\ mu[o.lhs].writer
    /\ IF o.kind = "move_assign" THEN mu[o.rhs].writer ELSE mu[o.rhs].readers > 0
    /\ \A u \in Threads \ {t} :
          /\ ~HoldsExclusive(u, o.lhs) /\ ~HoldsShared(u, o.lhs)
          /\ ~HoldsExclusive(u, o.rhs)
          /\ o.kind = "move_assign" => ~HoldsShared(u, o.rhs)

FairAssign ==
    /\ InitBlocking /\ [][NextBlocking]_vars
    /\ WF_vars(Tick)
    /\ \A t \in Callers :
          /\ WF_vars(unique_accessor_lock_acquire(t))
          /\ WF_vars(unique_accessor_lock_timeout(t))
          /\ WF_vars(shared_accessor_lock_acquire(t))
          /\ WF_vars(shared_accessor_lock_timeout(t))
          /\ WF_vars(accessor_destroy(t))
          /\ WF_vars(std_lock_first(t))
          /\ WF_vars(std_lock_try(t))
          /\ WF_vars(std_lock_backoff(t))
          /\ WF_vars(assign_container(t, 0))
          /\ WF_vars(assign_timeout(t))
          /\ WF_vars(assign_return(t))

\* a mutex that is free again and again is given to the std::lock that asks
\* for it
GrantsToStdLock ==
    \A t \in Callers :
        /\ SF_vars(std_lock_first(t))
        /\ SF_vars(std_lock_try(t) /\ pc'[t] = "asg_locked")

\* C20 (as stated): every assignment between distinct wrappers that was
\* started returns, in the executions in which a mutex that is free again
\* and again is given to the waiting std::lock
C20_AssignmentLiveness ==
    GrantsToStdLock
       => \A t \in Callers : (pc[t] \in AsgPcs) ~> (pc[t] = "idle")

\* another thread has an accessor, or has just started an assignment
Competing(t) ==
    \/ \E u \in Callers \ {t} : acc[u].kind # "none"
    \/ last.ev = "assign" /\ last.t # t

\* C20 (amended): in those executions every assignment that was started
\* returns unless other threads go on creating accessors or starting
\* assignments
C20_AssignmentCompletes ==
    GrantsToStdLock
       => \A t \in Callers : (pc[t] \in AsgPcs) ~> (pc[t] = "idle" \/ Competing(t))

\* std::lock has backed off: the mutex its try_lock() asked for is owned by
\* another thread's accessor
C20_Witness ==
    \E t \in Callers, u \in Callers :
        /\ pc[t] = "asg_backoff"
        /\ acc[u].owns /\ acc[u].w = OtherOf(op[t], op[t].first)
====
